---------------------------- MODULE Spec2Model ----------------------------
(***************************************************************************)
(* Fresh Juice Store: the two in-memory stores of src/server.js (juices,   *)
(* orders) and every GraphQL resolver and REST handler that reads or       *)
(* writes them.  A JavaScript object is a TLA+ record whose DOMAIN is the  *)
(* set of its own properties, so an omitted property is an absent field.   *)
(* Prices are counted in cents; NaN is a distinguished number that every   *)
(* addition propagates.                                                    *)
(***************************************************************************)
EXTENDS Integers, Sequences, FiniteSets

VARIABLES juices, orders, last, steps

vars == <<juices, orders, last, steps>>

(* ------------------------------ bounds --------------------------------- *)

\* Number of requests served in one behaviour.
MaxSteps == 4

(* --------------------------- JavaScript values -------------------------- *)

\* The value of Array.prototype.find when no element matches.
Undefined == [undefined |-> TRUE]

\* The number NaN (parseFloat of a non-numeric string).
NaN == 0 - 1

Has(o, k) == k \in DOMAIN o

\* a + b on numbers: NaN is absorbing.
Add(a, b) == IF a = NaN \/ b = NaN THEN NaN ELSE a + b

Digit(d) ==
    CASE d = 0 -> "0" [] d = 1 -> "1" [] d = 2 -> "2" [] d = 3 -> "3"
      [] d = 4 -> "4" [] d = 5 -> "5" [] d = 6 -> "6" [] d = 7 -> "7"
      [] d = 8 -> "8" [] d = 9 -> "9"

RECURSIVE toString(_)
\* Number.prototype.toString on a non-negative integer.
toString(n) == IF n < 10 THEN Digit(n) ELSE toString(n \div 10) \o Digit(n % 10)

\* { ...a, ...b }
Spread(a, b) ==
    [k \in DOMAIN a \cup DOMAIN b |-> IF k \in DOMAIN b THEN b[k] ELSE a[k]]

\* The values of a JSON request body, tagged by their JavaScript type.
Num(n) == [num |-> n]
Str(s) == [str |-> s]
Bool(b) == [bool |-> b]
List(l) == [list |-> l]

\* The JavaScript value a tagged JSON value stands for.
Raw(v) ==
    IF Has(v, "str") THEN v.str
    ELSE IF Has(v, "num") THEN v.num
    ELSE IF Has(v, "bool") THEN v.bool
    ELSE v.list

\* !!v
Truthy(v) ==
    \/ Has(v, "str") /\ v.str # ""
    \/ Has(v, "num") /\ v.num # 0 /\ v.num # NaN
    \/ Has(v, "bool") /\ v.bool
    \/ Has(v, "list")

\* parseFloat(v): a number is itself; a string is the number it starts with.
ParseFloat(v) ==
    IF Has(v, "num") THEN v.num
    ELSE CASE v.str = "6.49" -> 649
           [] v.str = "5.5"  -> 550
           [] v.str = "7.25 each" -> 725
           [] OTHER -> NaN

(* ------------------------------ the stores ------------------------------ *)

SeedJuices == <<
    [id |-> "1", name |-> "Orange Juice", description |-> "Freshly squeezed oranges",
     price |-> 499, category |-> "Fruit", inStock |-> TRUE, imageUrl |-> "./images/first.jpg"],
    [id |-> "2", name |-> "Green Detox", description |-> "Spinach, kale, and apple blend",
     price |-> 599, category |-> "Vegetable", inStock |-> TRUE, imageUrl |-> "./images/second.jpg"],
    [id |-> "3", name |-> "Berry Blast", description |-> "Mixed berries with yogurt",
     price |-> 699, category |-> "Smoothie", inStock |-> TRUE, imageUrl |-> "./images/third.jpg"],
    [id |-> "4", name |-> "Carrot Boost", description |-> "Fresh carrots with ginger",
     price |-> 449, category |-> "Vegetable", inStock |-> FALSE, imageUrl |-> "./images/look.jpg"],
    [id |-> "5", name |-> "Pineapple Paradise", description |-> "Tropical pineapple with coconut",
     price |-> 799, category |-> "Fruit", inStock |-> TRUE, imageUrl |-> "./images/first.jpg"] >>

SeedOrders == <<
    [id |-> "1", customerName |-> "Pavan", items |-> <<"1", "2">>, total |-> 1098,
     status |-> "completed", createdAt |-> "2024-01-15"],
    [id |-> "2", customerName |-> "Sunny", items |-> <<"3">>, total |-> 699,
     status |-> "pending", createdAt |-> "2024-01-16"] >>

\* arr.findIndex(x => x.id === id), 1-based; 0 stands for -1.
FindIndex(arr, id) ==
    IF \E i \in 1..Len(arr) : arr[i].id = id
    THEN CHOOSE i \in 1..Len(arr) :
            /\ arr[i].id = id
            /\ \A j \in 1..(i - 1) : arr[j].id # id
    ELSE 0

\* arr.find(x => x.id === id)
Find(arr, id) ==
    IF FindIndex(arr, id) = 0 THEN Undefined ELSE arr[FindIndex(arr, id)]

\* arr.splice(i, 1)
Splice(arr, i) == SubSeq(arr, 1, i - 1) \o SubSeq(arr, i + 1, Len(arr))

\* Query.juice / GET /api/juices/:id against a juice store js.
juice(js, id) == Find(js, id)

\* Query.order against an order store os.
order(os, id) == Find(os, id)

RECURSIVE MapFind(_, _)
\* items.map(itemId => juices.find(j => j.id === itemId))
MapFind(items, js) ==
    IF items = <<>> THEN <<>>
    ELSE <<Find(js, Head(items))>> \o MapFind(Tail(items), js)

IsObject(v) == v # Undefined

\* Order.juices without the filter: unresolved ids stay in the list.
OrderJuicesUnfiltered(parent, js) == MapFind(parent.items, js)

\* Order.juices: parent.items.map(...).filter(Boolean)
OrderJuices(parent, js) == SelectSeq(MapFind(parent.items, js), IsObject)

RECURSIVE ReduceOncePerId(_, _, _)
\* Reduce with every id counted once, however often the list names it.
ReduceOncePerId(items, js, sum) ==
    IF items = <<>> THEN sum
    ELSE IF \E i \in 2..Len(items) : items[i] = Head(items)
         THEN ReduceOncePerId(Tail(items), js, sum)
         ELSE ReduceOncePerId(Tail(items), js,
                Add(sum, IF Find(js, Head(items)) # Undefined
                         THEN Find(js, Head(items)).price ELSE 0))

RECURSIVE Reduce(_, _, _)
\* items.reduce((sum, itemId) => sum + (juice ? juice.price : 0), sum)
Reduce(items, js, sum) ==
    IF items = <<>> THEN sum
    ELSE Reduce(Tail(items), js,
                Add(sum, IF Find(js, Head(items)) # Undefined
                         THEN Find(js, Head(items)).price ELSE 0))

(* -------------------------------- inputs -------------------------------- *)

\* Ids a request names: present in the seed, assigned by a create, never assigned.
Ids == {"1", "5", "6"}

\* new Date().toISOString()
Now == {"2026-01-01T00:00:00.000Z"}

\* JuiceInput values accepted by the schema for createJuice.
JuiceInputs == {
    [name |-> "Mango Tango", price |-> 649],
    [name |-> "Mango Tango", description |-> "Fresh mango", price |-> 649,
     category |-> "Tropical", inStock |-> FALSE, imageUrl |-> "./images/mango.jpg"] }

\* JuiceInput values accepted by the schema for updateJuice.
JuiceUpdates == {
    [name |-> "Citrus", price |-> 0],
    [name |-> "Orange Juice", description |-> "", price |-> 499, inStock |-> FALSE] }

\* JSON bodies of POST /api/juices.
JuiceBodies == {
    [description |-> Str("no name")],
    [name |-> Str(""), price |-> Num(649)],
    [name |-> Str("Free"), price |-> Num(0)],
    [name |-> Str("Mango Tango"), price |-> Num(649)],
    [name |-> Str("Mango Tango"), description |-> Str(""), price |-> Str("6.49"),
     category |-> Str(""), inStock |-> Bool(FALSE), imageUrl |-> Str("./images/mango.jpg")],
    [name |-> Str("Mystery"), price |-> Str("abc")] }

\* JSON bodies of PUT /api/juices/:id.
PutBodies == {
    [description |-> Str("")],
    [name |-> Str("Citrus"), price |-> Num(0)],
    [price |-> Str("5.5"), inStock |-> Bool(FALSE)] }

ItemLists == { <<>>, <<"1", "3">>, <<"5", "9", "5">> }

\* OrderInput values accepted by the schema.
OrderInputs == [customerName : {"Test"}, items : ItemLists]

\* JSON bodies of POST /api/orders.
OrderBodies == {
    [items |-> List(<<"1", "3">>)],
    [customerName |-> Str(""), items |-> List(<<"1", "3">>)],
    [customerName |-> Str("Test")],
    [customerName |-> Str("Test"), items |-> Str("1,3")],
    [customerName |-> Str("Test"), items |-> List(<<>>)],
    [customerName |-> Str("Test"), items |-> List(<<"5", "9", "5">>)] }

OrderIds == {"2", "3"}

Statuses == {"shipped", ""}

\* Orders whose juices field a query selects.
ParentIds == {"1", "2", "3"}

(* ----------------------------- initial state ---------------------------- *)

Init ==
    /\ juices = SeedJuices
    /\ orders = SeedOrders
    /\ last = [op |-> "none"]
    /\ steps = 0

\* One more request is served.
Tick == steps < MaxSteps /\ steps' = steps + 1

(* --------------------------- GraphQL mutations -------------------------- *)

\* The record createJuice builds from its input.
NewJuice(input) ==
    Spread(Spread([id |-> toString(Len(juices) + 1)], input),
           [inStock |-> IF Has(input, "inStock") THEN input.inStock ELSE TRUE])

createJuice(input) ==
    /\ Tick
    /\ juices' = Append(juices, NewJuice(input))
    /\ last' = [op |-> "createJuice", via |-> "graphql", input |-> input,
                status |-> "ok", result |-> NewJuice(input)]
    /\ UNCHANGED orders

updateJuice(id, input) ==
    LET juiceIndex == FindIndex(juices, id) IN
    /\ Tick
    /\ IF juiceIndex = 0
       THEN /\ last' = [op |-> "updateJuice", via |-> "graphql", id |-> id, input |-> input,
                        status |-> "Juice not found"]
            /\ UNCHANGED <<juices, orders>>
       ELSE /\ juices' = [juices EXCEPT ![juiceIndex] = Spread(juices[juiceIndex], input)]
            /\ last' = [op |-> "updateJuice", via |-> "graphql", id |-> id, input |-> input,
                        status |-> "ok", result |-> Spread(juices[juiceIndex], input)]
            /\ UNCHANGED orders

deleteJuice(id) ==
    LET juiceIndex == FindIndex(juices, id) IN
    /\ Tick
    /\ IF juiceIndex = 0
       THEN /\ last' = [op |-> "deleteJuice", via |-> "graphql", id |-> id,
                        status |-> "Juice not found"]
            /\ UNCHANGED <<juices, orders>>
       ELSE /\ juices' = Splice(juices, juiceIndex)
            /\ last' = [op |-> "deleteJuice", via |-> "graphql", id |-> id, status |-> "ok"]
            /\ UNCHANGED orders

\* NewOrder with the id taken from the length before the insert, not after.
NewOrderOffByOne(input, now) ==
    Spread(Spread([id |-> toString(Len(orders))], input),
           [total |-> Reduce(input.items, juices, 0), status |-> "pending",
            createdAt |-> now])

\* The record createOrder builds from its input at time now.
NewOrder(input, now) ==
    Spread(Spread([id |-> toString(Len(orders) + 1)], input),
           [total |-> Reduce(input.items, juices, 0), status |-> "pending",
            createdAt |-> now])

createOrder(input, now) ==
    /\ Tick
    /\ orders' = Append(orders, NewOrder(input, now))
    /\ last' = [op |-> "createOrder", via |-> "graphql", input |-> input,
                status |-> "ok", result |-> NewOrder(input, now)]
    /\ UNCHANGED juices

\* updateOrderStatus that keeps the old status when the new one is falsy.
updateOrderStatusOrOld(id, status) ==
    LET k == FindIndex(orders, id)
        new == IF status = "" THEN orders[k].status ELSE status IN
    /\ Tick
    /\ IF k = 0
       THEN /\ last' = [op |-> "updateOrderStatus", via |-> "graphql", id |-> id,
                        newStatus |-> status, status |-> "Order not found"]
            /\ UNCHANGED <<juices, orders>>
       ELSE /\ orders' = [orders EXCEPT ![k].status = new]
            /\ last' = [op |-> "updateOrderStatus", via |-> "graphql", id |-> id,
                        newStatus |-> status, status |-> "ok",
                        result |-> [orders[k] EXCEPT !.status = new]]
            /\ UNCHANGED juices

updateOrderStatus(id, status) ==
    LET k == FindIndex(orders, id) IN
    /\ Tick
    /\ IF k = 0
       THEN /\ last' = [op |-> "updateOrderStatus", via |-> "graphql", id |-> id,
                        newStatus |-> status, status |-> "Order not found"]
            /\ UNCHANGED <<juices, orders>>
       ELSE /\ orders' = [orders EXCEPT ![k].status = status]
            /\ last' = [op |-> "updateOrderStatus", via |-> "graphql", id |-> id,
                        newStatus |-> status, status |-> "ok",
                        result |-> [orders[k] EXCEPT !.status = status]]
            /\ UNCHANGED juices

\* The Order.juices field resolved for the order with this id, as the orders
\* and order queries hand it to the resolver.
resolveOrderJuices(id) ==
    /\ Tick
    /\ order(orders, id) # Undefined
    /\ last' = [op |-> "Order.juices", via |-> "graphql", parent |-> order(orders, id),
                status |-> "ok", result |-> OrderJuices(order(orders, id), juices)]
    /\ UNCHANGED <<juices, orders>>

(* ------------------------------ REST handlers --------------------------- *)

\* body.k || fallback
OrElse(body, k, fallback) ==
    IF Has(body, k) /\ Truthy(body[k]) THEN Raw(body[k]) ELSE fallback

\* The record POST /api/juices builds from a valid body.
PostedJuice(body) ==
    [id |-> toString(Len(juices) + 1),
     name |-> Raw(body.name),
     description |-> OrElse(body, "description", ""),
     price |-> ParseFloat(body.price),
     category |-> OrElse(body, "category", "Fruit"),
     inStock |-> IF Has(body, "inStock") THEN Raw(body.inStock) ELSE TRUE,
     imageUrl |-> OrElse(body, "imageUrl", "./images/first.jpg")]

\* PostJuice that rejects only an absent name or price, not a falsy one.
PostJuicePresenceOnly(body) ==
    /\ Tick
    /\ IF ~Has(body, "name") \/ ~Has(body, "price")
       THEN /\ last' = [op |-> "createJuice", via |-> "rest", input |-> body, status |-> "400"]
            /\ UNCHANGED <<juices, orders>>
       ELSE /\ juices' = Append(juices, PostedJuice(body))
            /\ last' = [op |-> "createJuice", via |-> "rest", input |-> body,
                        status |-> "201", result |-> PostedJuice(body)]
            /\ UNCHANGED orders

PostJuice(body) ==
    /\ Tick
    /\ IF \/ ~(Has(body, "name") /\ Truthy(body.name))
          \/ ~(Has(body, "price") /\ Truthy(body.price))
       THEN /\ last' = [op |-> "createJuice", via |-> "rest", input |-> body, status |-> "400"]
            /\ UNCHANGED <<juices, orders>>
       ELSE /\ juices' = Append(juices, PostedJuice(body))
            /\ last' = [op |-> "createJuice", via |-> "rest", input |-> body,
                        status |-> "201", result |-> PostedJuice(body)]
            /\ UNCHANGED orders

\* The fields PUT /api/juices/:id assigns; an assignment of undefined leaves
\* the property without a value.
PutAssigned(body) ==
    LET given == {k \in {"name", "description", "category", "imageUrl"} :
                     Has(body, k) /\ Truthy(body[k])}
        price == IF Has(body, "price") /\ Truthy(body.price)
                 THEN [price |-> ParseFloat(body.price)] ELSE <<>>
        stock == IF Has(body, "inStock") THEN [inStock |-> Raw(body.inStock)] ELSE <<>>
    IN  Spread(Spread([k \in given |-> Raw(body[k])], price), stock)

PutJuice(id, body) ==
    LET k == FindIndex(juices, id) IN
    /\ Tick
    /\ IF k = 0
       THEN /\ last' = [op |-> "updateJuice", via |-> "rest", id |-> id, input |-> body,
                        status |-> "404"]
            /\ UNCHANGED <<juices, orders>>
       ELSE /\ juices' = [juices EXCEPT ![k] = Spread(juices[k], PutAssigned(body))]
            /\ last' = [op |-> "updateJuice", via |-> "rest", id |-> id, input |-> body,
                        status |-> "200",
                        result |-> Spread(juices[k], PutAssigned(body))]
            /\ UNCHANGED orders

DeleteJuiceRest(id) ==
    LET juiceIndex == FindIndex(juices, id) IN
    /\ Tick
    /\ IF juiceIndex = 0
       THEN /\ last' = [op |-> "deleteJuice", via |-> "rest", id |-> id, status |-> "404"]
            /\ UNCHANGED <<juices, orders>>
       ELSE /\ juices' = Splice(juices, juiceIndex)
            /\ last' = [op |-> "deleteJuice", via |-> "rest", id |-> id, status |-> "200"]
            /\ UNCHANGED orders

\* Array.isArray(v)
IsArray(v) == Has(v, "list")

\* The record POST /api/orders builds from a valid body at time now.
PostedOrder(body, now) ==
    [id |-> toString(Len(orders) + 1),
     customerName |-> Raw(body.customerName),
     items |-> Raw(body.items),
     total |-> Reduce(Raw(body.items), juices, 0),
     status |-> "pending",
     createdAt |-> now]

PostOrder(body, now) ==
    /\ Tick
    /\ IF \/ ~(Has(body, "customerName") /\ Truthy(body.customerName))
          \/ ~Has(body, "items")
          \/ ~IsArray(body.items)
       THEN /\ last' = [op |-> "createOrder", via |-> "rest", input |-> body, status |-> "400"]
            /\ UNCHANGED <<juices, orders>>
       ELSE /\ orders' = Append(orders, PostedOrder(body, now))
            /\ last' = [op |-> "createOrder", via |-> "rest", input |-> body,
                        status |-> "201", result |-> PostedOrder(body, now)]
            /\ UNCHANGED juices

(* ------------------------------ specification --------------------------- *)

Next ==
    \/ \E input \in JuiceInputs : createJuice(input)
    \/ \E id \in Ids, input \in JuiceUpdates : updateJuice(id, input)
    \/ \E id \in Ids : deleteJuice(id)
    \/ \E input \in OrderInputs, now \in Now : createOrder(input, now)
    \/ \E id \in OrderIds, status \in Statuses : updateOrderStatus(id, status)
    \/ \E id \in ParentIds : resolveOrderJuices(id)
    \/ \E body \in JuiceBodies : PostJuice(body)
    \/ \E id \in Ids, body \in PutBodies : PutJuice(id, body)
    \/ \E id \in Ids : DeleteJuiceRest(id)
    \/ \E body \in OrderBodies, now \in Now : PostOrder(body, now)

Spec == Init /\ [][Next]_vars

(* -------------------------------- properties ---------------------------- *)

\* The request just served ended in success / in Not-Found.
Succeeded(l) == l.status \in {"ok", "200", "201"}
NotFound(l) == l.status \in {"Juice not found", "Order not found", "404"}

\* C1: the ids of the juices present in the store are pairwise distinct in
\* every reachable state (createJuice never assigns an id already present).
C1_JuiceIdsDistinct ==
    \A i, j \in 1..Len(juices) : i # j => juices[i].id # juices[j].id

\* C2: a successful deleteJuice(id) is followed by getJuice(id) = Not-Found,
\* and listJuices() is exactly one shorter than before the delete.
C2_DeleteThenGetNotFound ==
    [][ (last'.op = "deleteJuice" /\ Succeeded(last'))
        => /\ juice(juices', last'.id) = Undefined
           /\ Len(juices') = Len(juices) - 1 ]_vars

\* C3: once deleteJuice(id) has succeeded, the next deleteJuice(id) (no
\* createJuice in between) yields Not-Found and changes neither store.
C3_RepeatedDeleteNotFound ==
    [][ (/\ last.op = "deleteJuice" /\ Succeeded(last)
         /\ last'.op = "deleteJuice" /\ last'.id = last.id)
        => /\ NotFound(last')
           /\ juices' = juices
           /\ orders' = orders ]_vars

\* The item list a createOrder request carried.
ItemsOf(l) == IF l.via = "rest" THEN l.input.items.list ELSE l.input.items

RECURSIVE SumOfPrices(_, _)
\* The sum, over the entries of items from last to first, of the price of the
\* juice getJuice resolves for the entry; unresolved entries add 0.
SumOfPrices(items, js) ==
    IF items = <<>> THEN 0
    ELSE LET n == Len(items)
             rest == SumOfPrices(SubSeq(items, 1, n - 1), js)
             p == IF juice(js, items[n]) = Undefined THEN 0
                  ELSE juice(js, items[n]).price
         IN  IF rest = NaN \/ p = NaN THEN NaN ELSE rest + p

\* C4: createOrder appends exactly one order, with status "pending", the
\* input's items, and total = the sum over the items (with multiplicity) of
\* the current price of the juice getJuice resolves, 0 for unresolved ids.
C4_CreateOrderTotal ==
    [][ (last'.op = "createOrder" /\ Succeeded(last'))
        => LET items == ItemsOf(last')
               new == orders'[Len(orders')]
           IN  /\ orders' = Append(orders, new)
               /\ new.status = "pending"
               /\ new.items = items
               /\ new.total = SumOfPrices(items, juices)
               /\ items = <<>> => new.total = 0
               /\ (juices = SeedJuices /\ items = <<"1", "3">>)
                     => new.total = 499 + 699 ]_vars

\* An order over a repeated and an unresolved id was created on a store in
\* which the price of the repeated juice is no longer the seeded one.
C4_Witness ==
    /\ last.op = "createOrder" /\ Succeeded(last)
    /\ ItemsOf(last) = <<"5", "9", "5">>
    /\ juices # SeedJuices
    /\ orders[Len(orders)].total \notin {0, NaN, 799 + 799}

\* C5: Order.juices returns, in the order of order.items, exactly the juices
\* getJuice returns for the item ids that resolve, never more records than
\* items, and changes neither store.
C5_OrderJuicesResolved ==
    [][ last'.op = "Order.juices"
        => LET items == last'.parent.items
               R == last'.result
               hit == {i \in 1..Len(items) : juice(juices, items[i]) # Undefined}
           IN  /\ juices' = juices
               /\ orders' = orders
               /\ Len(R) <= Len(items)
               /\ Len(R) = Cardinality(hit)
               /\ \E f \in [1..Len(R) -> hit] :
                     /\ \A a, b \in 1..Len(R) : a < b => f[a] < f[b]
                     /\ \A a \in 1..Len(R) : R[a] = juice(juices, items[f[a]]) ]_vars

\* Order.juices was resolved for seed order "1" (items "1", "2") after juice
\* "1" was deleted: one juice comes back for two items.
C5_Witness ==
    /\ last.op = "Order.juices"
    /\ last.parent.id = "1"
    /\ juice(juices, "1") = Undefined
    /\ Len(last.result) = 1
    /\ last.result[1].id = "2"

\* C6: updateOrderStatus on a present id sets that order's status verbatim
\* (getOrder then returns it) and changes nothing else; on an absent id it
\* fails with 'Order not found' and changes neither store.
C6_UpdateOrderStatus ==
    [][ last'.op = "updateOrderStatus"
        => IF order(orders, last'.id) # Undefined
           THEN /\ Succeeded(last')
                /\ order(orders', last'.id).status = last'.newStatus
                /\ Len(orders') = Len(orders)
                /\ \A k \in 1..Len(orders) :
                      orders'[k] = IF orders[k].id = last'.id
                                   THEN [orders[k] EXCEPT !.status = last'.newStatus]
                                   ELSE orders[k]
                /\ juices' = juices
           ELSE /\ last'.status = "Order not found"
                /\ juices' = juices
                /\ orders' = orders ]_vars

\* A created order had its status set to the empty string.
C6_Witness ==
    /\ last.op = "updateOrderStatus" /\ Succeeded(last)
    /\ last.id = "3" /\ last.newStatus = ""
    /\ order(orders, "3").status = ""

\* The fields a juice carries besides its id, and their documented defaults.
JuiceFields == {"name", "description", "price", "category", "inStock", "imageUrl"}

Default(f) ==
    CASE f = "description" -> ""
      [] f = "category" -> "Fruit"
      [] f = "inStock" -> TRUE
      [] f = "imageUrl" -> "./images/first.jpg"

\* The stored value is the value the request gave for field f (a price given
\* as a JSON string counts as returned when a number is stored).
GivenBack(stored, l, f) ==
    IF l.via = "graphql" THEN stored = l.input[f]
    ELSE IF f = "price"
         THEN IF Has(l.input[f], "num") THEN stored = l.input[f].num ELSE stored # NaN
         ELSE stored = Raw(l.input[f])

\* C7: after createJuice(input) returned a juice with id i, getJuice(i) has
\* every field of input as given and every omitted optional field at its
\* documented default.
C7_CreateJuiceRoundTrip ==
    (last.op = "createJuice" /\ Succeeded(last))
    => LET j == juice(juices, last.result.id)
       IN  /\ j # Undefined
           /\ \A f \in JuiceFields :
                 /\ Has(j, f)
                 /\ IF Has(last.input, f) THEN GivenBack(j[f], last, f)
                    ELSE j[f] = Default(f)

\* The fields an updateJuice request carries, as JavaScript values.
FieldsGiven(l) ==
    IF l.via = "graphql" THEN l.input
    ELSE [f \in DOMAIN l.input |->
            IF f = "price" THEN ParseFloat(l.input[f]) ELSE Raw(l.input[f])]

\* C8: updateJuice on a present id sets exactly the fields present in input
\* on the record with that id, keeps every other field, every other juice,
\* the sequence's length and order and all orders; on an absent id it fails
\* with Not-Found and changes neither store; GraphQL and REST alike.
C8_UpdateJuiceMerges ==
    [][ last'.op = "updateJuice"
        => IF juice(juices, last'.id) = Undefined
           THEN NotFound(last') /\ juices' = juices /\ orders' = orders
           ELSE /\ Succeeded(last')
                /\ orders' = orders
                /\ Len(juices') = Len(juices)
                /\ \E k \in 1..Len(juices) :
                      /\ juices[k].id = last'.id
                      /\ juices'[k] = Spread(juices[k], FieldsGiven(last'))
                      /\ \A i \in 1..Len(juices) : i # k => juices'[i] = juices[i] ]_vars

\* A body value that is falsy in JavaScript.
Falsy(v) == v \in {Str(""), Num(0), Bool(FALSE)}

Missing(body, f) == f \notin DOMAIN body

\* POST /api/juices answers 400 and changes nothing when name or price is
\* missing or falsy, and otherwise answers 201 with one more juice.
PostJuiceAnswers ==
    (last'.op = "createJuice" /\ last'.via = "rest")
    => IF \E f \in {"name", "price"} :
             Missing(last'.input, f) \/ Falsy(last'.input[f])
       THEN last'.status = "400" /\ juices' = juices /\ orders' = orders
       ELSE /\ last'.status = "201"
            /\ Len(juices') = Len(juices) + 1
            /\ orders' = orders

\* POST /api/orders answers 400 and changes nothing when rejected, and
\* otherwise answers 201 with one more order.
PostOrderAnswers(rejected) ==
    (last'.op = "createOrder" /\ last'.via = "rest")
    => IF rejected
       THEN last'.status = "400" /\ juices' = juices /\ orders' = orders
       ELSE /\ last'.status = "201"
            /\ Len(orders') = Len(orders) + 1
            /\ juices' = juices

ItemsNotAList(body) == Missing(body, "items") \/ ~Has(body.items, "list")

\* C9 as stated: POST /api/orders is rejected exactly when customerName is
\* missing or items is not a list.
C9_AsStated ==
    [][ /\ PostJuiceAnswers
        /\ PostOrderAnswers(\/ Missing(last'.input, "customerName")
                            \/ ItemsNotAList(last'.input)) ]_vars

\* C9: a REST create either fails validation (400, both stores unchanged) or
\* appends exactly one record (201): POST /api/juices is rejected when name
\* or price is missing or falsy, POST /api/orders when customerName is
\* missing or falsy or items is not a list (an empty list is accepted).
C9_RestCreateValidates ==
    [][ /\ PostJuiceAnswers
        /\ PostOrderAnswers(\/ Missing(last'.input, "customerName")
                            \/ Falsy(last'.input.customerName)
                            \/ ItemsNotAList(last'.input)) ]_vars

\* POST /api/orders with an empty customerName was answered 400 after an
\* earlier POST had been accepted.
C9_Witness ==
    /\ last.op = "createOrder" /\ last.via = "rest"
    /\ Has(last.input, "customerName") /\ last.input.customerName = Str("")
    /\ last.status = "400"
    /\ Len(orders) > Len(SeedOrders)

\* The decimal numeral of k.
Numeral(k) ==
    IF k <= 9 THEN <<"1", "2", "3", "4", "5", "6", "7", "8", "9">>[k] ELSE toString(k)

OrderIdsSequential(os) == \A k \in 1..Len(os) : os[k].id = Numeral(k)

\* C10: the order at position k has id = the string of k, so order ids are
\* pairwise distinct; the order sequence never shrinks; an existing order
\* keeps its id, customerName, items, total and createdAt, and its status
\* changes only through updateOrderStatus.
C10_OrdersAppendOnly ==
    [][ /\ OrderIdsSequential(orders) /\ OrderIdsSequential(orders')
        /\ \A a, b \in 1..Len(orders') : a # b => orders'[a].id # orders'[b].id
        /\ Len(orders') >= Len(orders)
        /\ \A k \in 1..Len(orders) :
              /\ orders'[k].id = orders[k].id
              /\ orders'[k].customerName = orders[k].customerName
              /\ orders'[k].items = orders[k].items
              /\ orders'[k].total = orders[k].total
              /\ orders'[k].createdAt = orders[k].createdAt
              /\ orders'[k].status # orders[k].status
                    => last'.op = "updateOrderStatus" ]_vars

\* Two orders were created and the first of them was then shipped while the
\* second stays pending.
C10_Witness ==
    /\ Len(orders) = Len(SeedOrders) + 2
    /\ orders[3].status = "shipped"
    /\ orders[4].status = "pending"
    /\ last.op = "updateOrderStatus"

====
